---- MODULE Spec2Model ----
(***************************************************************************)
(* Shared-expense ledger (Follow-the-money): the split calculator of the   *)
(* Expense model, the Debt model's payment and netting methods, and the    *)
(* debt calculator that rebuilds a group's debts from its expenses.        *)
(*                                                                         *)
(* Money is counted in whole cents (1 = 0.01 currency unit), percentages   *)
(* in hundredths of a percent (10000 = 100%).  The code computes in binary *)
(* floating point: a value that is exactly half-way between two cents, and *)
(* a comparison against the 0.01 tolerance at a difference of exactly one  *)
(* cent, come out either way depending on the operands (0.29/2*100 rounds  *)
(* to 14, 0.01/2*100 to 1; |99.99-100| > 0.01 is true, |0.02-0.01| > 0.01  *)
(* is false), so both outcomes are modelled as a choice.                   *)
(*                                                                         *)
(* Documents carry the fields the code reads and writes on them: the       *)
(* controllers and debtCalculator.js use splitDetails and status, the      *)
(* model methods use splits and isPaid.  The unique index of the Debt      *)
(* collection is enforced by the store.                                    *)
(***************************************************************************)
EXTENDS Integers, Sequences, FiniteSets, TLC

VARIABLES
  exp,            \* the Expense document the split methods are called on
  splitOp,        \* the last split method called, and how it ended
  members,        \* the member list of the group
  expenses,       \* the Expense collection
  debts,          \* the Debt collection, in insertion order
  nextExpenseId,  \* the next fresh Expense _id
  nextDebtId,     \* the next fresh Debt _id
  now,            \* the clock read by new Date()
  lastOp,         \* the last ledger operation, and how it ended
  calls,          \* the requests in flight: where each caller stands
  match,          \* a run of calculateOptimalDebts: its balances, lists and indexes
  group,          \* the Group document as persisted, and the last group operation
  http            \* the server's users and rate count, and how the last request ended

splitVars == <<exp, splitOp>>
ledgerVars == <<members, expenses, debts, nextExpenseId, nextDebtId, now, lastOp, calls>>
sideVars == <<match, group, http>>
vars == <<exp, splitOp, members, expenses, debts, nextExpenseId, nextDebtId, now, lastOp, calls,
          match, group, http>>

\* ---------------------------------------------------------------- bounds
MaxAmount == 4
MaxTime == 2

\* ------------------------------------------------------ program constants
Tolerance == 1
FullPercent == 10000

\* the users an expense can be split among, in the order of the member list
Members == <<"A", "B", "C">>
Participants == {Members[i] : i \in DOMAIN Members}

\* the _ids the collections hand out
ExpenseIds == {1, 2}
DebtIds == {1, 2}

\* the users who send requests: the members and one outsider
Requesters == Participants \cup {"D"}

\* the group ids of requests: the group and an id no group has
GroupIds == {"G", "X"}

\* amounts of the expenses recorded in the ledger, and of the payments offered
ExpenseAmounts == {600, 900}
PaymentAmounts == {0, 100, 300}

\* percentages a caller supplies, in hundredths of a percent
PctValues == {0, 2500, 3333, 3334, 5000, 10000}

\* ---------------------------------------------------------------- helpers
Abs(x) == IF x < 0 THEN 0 - x ELSE x

RECURSIVE SumAmount(_)
SumAmount(s) == IF s = <<>> THEN 0 ELSE Head(s).amount + SumAmount(Tail(s))

RECURSIVE SumPercentage(_)
SumPercentage(s) == IF s = <<>> THEN 0 ELSE Head(s).percentage + SumPercentage(Tail(s))

\* Math.round(num/den): the nearest integer; an exact half goes either way
RoundOutcomes(num, den) ==
  LET q == num \div den
      r2 == 2 * (num % den)
  IN  IF r2 < den THEN {q} ELSE IF r2 > den THEN {q + 1} ELSE {q, q + 1}

\* Math.abs(a - b) > 0.01: the outcomes of the comparison
ExceedsTolerance(a, b) ==
  IF Abs(a - b) < Tolerance THEN {FALSE}
  ELSE IF Abs(a - b) > Tolerance THEN {TRUE}
  ELSE {FALSE, TRUE}

\* the sequences whose i-th element is drawn from the i-th set of S
RECURSIVE ChoiceSeqs(_)
ChoiceSeqs(S) ==
  IF S = <<>> THEN {<<>>}
  ELSE {<<h>> \o t : h \in Head(S), t \in ChoiceSeqs(Tail(S))}

\* sequences without repetition over S
DistinctSeqs(S) ==
  UNION {{s \in [1..k -> S] : \A i, j \in 1..k : i # j => s[i] # s[j]} :
           k \in 0..Cardinality(S)}

\* the member list cut after its first k entries
Prefixes(m) == {SubSeq(m, 1, k) : k \in 0..Len(m)}

\* how far a total is from its target: within the tolerance, exactly at it,
\* or beyond it
Distance(a, b) ==
  IF Abs(a - b) < Tolerance THEN "within"
  ELSE IF Abs(a - b) > Tolerance THEN "beyond" ELSE "boundary"

\* ------------------------------------------------- Expense: split methods
\* Expense.calculateEqualSplits: r is Math.round(splitAmount * 100) / 100 and
\* p is Math.round((100 / n) * 100) / 100, the same for every participant
EqualSplits(e, userIds, r, p) ==
  [e EXCEPT !.splits = [i \in 1..Len(userIds) |->
                          [user |-> userIds[i], amount |-> r, percentage |-> p,
                           isPaid |-> userIds[i] = e.paidBy]],
            !.splitMethod = "equal"]

\* the values of r and p for an amount and n participants (n = 0: the map
\* runs over no element and the quotients are never used)
EqualShare(amount, n) == IF n = 0 THEN {0} ELSE RoundOutcomes(amount, n)
EqualPercentage(n) == IF n = 0 THEN {0} ELSE RoundOutcomes(FullPercent, n)

\* calculateCustomSplits with the splits assigned before the total is tested
CustomSplitsAssignFirst(e, customSplits, exceeds, pcts) ==
  [ok |-> ~exceeds,
   exp |-> [e EXCEPT !.splits = [i \in 1..Len(customSplits) |->
                                  [user |-> customSplits[i].userId,
                                   amount |-> customSplits[i].amount,
                                   percentage |-> pcts[i],
                                   isPaid |-> customSplits[i].userId = e.paidBy]],
                     !.splitMethod = "custom"]]

\* Expense.calculateCustomSplits: exceeds is the outcome of the tolerance
\* test on the total, pcts[i] is Math.round((amount_i / amount) * 10000) / 100
CustomSplits(e, customSplits, exceeds, pcts) ==
  IF exceeds
  THEN [ok |-> FALSE, exp |-> e]
  ELSE [ok |-> TRUE,
        exp |-> [e EXCEPT !.splits = [i \in 1..Len(customSplits) |->
                                       [user |-> customSplits[i].userId,
                                        amount |-> customSplits[i].amount,
                                        percentage |-> pcts[i],
                                        isPaid |-> customSplits[i].userId = e.paidBy]],
                          !.splitMethod = "custom"]]

CustomPercentages(e, customSplits) ==
  ChoiceSeqs([i \in 1..Len(customSplits) |->
                RoundOutcomes(customSplits[i].amount * FullPercent, e.amount)])

\* Expense.calculatePercentageSplits: amts[i] is
\* Math.round((amount * percentage_i / 100) * 100) / 100
PercentageSplits(e, percentageSplits, exceeds, amts) ==
  IF exceeds
  THEN [ok |-> FALSE, exp |-> e]
  ELSE [ok |-> TRUE,
        exp |-> [e EXCEPT !.splits = [i \in 1..Len(percentageSplits) |->
                                       [user |-> percentageSplits[i].userId,
                                        amount |-> amts[i],
                                        percentage |-> percentageSplits[i].percentage,
                                        isPaid |-> percentageSplits[i].userId = e.paidBy]],
                          !.splitMethod = "percentage"]]

PercentageAmounts(e, percentageSplits) ==
  ChoiceSeqs([i \in 1..Len(percentageSplits) |->
                RoundOutcomes(e.amount * percentageSplits[i].percentage, FullPercent)])

\* the argument lists of the split methods: one entry per participant
CustomArgs ==
  UNION {{[i \in 1..Len(u) |-> [userId |-> u[i], amount |-> a[i]]] :
            a \in [1..Len(u) -> 0..MaxAmount]} : u \in Prefixes(Members)}

PercentageArgs ==
  UNION {{[i \in 1..Len(u) |-> [userId |-> u[i], percentage |-> a[i]]] :
            a \in [1..Len(u) -> PctValues]} : u \in Prefixes(Members)}


\* ------------------------------------------------------- Debt: the document
\* a Debt as the derive loops of the scripts build it; expense 0 and
\* originalAmount -1 stand for a field that was never set, paidAt 0 for no date
NewDebt(id, debtor, creditor, expense, amount, originalAmount, status) ==
  [id |-> id, debtor |-> debtor, creditor |-> creditor, expense |-> expense,
   group |-> "G", amount |-> amount, originalAmount |-> originalAmount,
   isPaid |-> FALSE, paidAt |-> 0, partialPayments |-> <<>>,
   status |-> status, settledAt |-> 0, notes |-> ""]

RECURSIVE SumSeq(_)
SumSeq(s) == IF s = <<>> THEN 0 ELSE Head(s) + SumSeq(Tail(s))

Max(a, b) == IF a > b THEN a ELSE b
Min(a, b) == IF a < b THEN a ELSE b

\* Debt.totalPaid and Debt.remainingAmount (virtuals)
totalPaid(d) == SumSeq(d.partialPayments)
remainingAmount(d) == Max(0, d.amount - totalPaid(d))

\* the unique index on (debtor, creditor, expense)
KeyOf(d) == <<d.debtor, d.creditor, d.expense>>
DuplicateKey(ds, d) == \E i \in 1..Len(ds) : KeyOf(ds[i]) = KeyOf(d)

RECURSIVE SelectSeq2(_, _)
\* the documents of ds whose position is in keep, in order
SelectSeq2(ds, keep) ==
  IF ds = <<>> THEN <<>>
  ELSE LET rest == SelectSeq2(Tail(ds), {i - 1 : i \in keep \ {1}})
       IN  IF 1 \in keep THEN <<Head(ds)>> \o rest ELSE rest

\* position of the document with _id id, 0 when there is none
IndexOf(ds, id) ==
  IF \E i \in 1..Len(ds) : ds[i].id = id
  THEN CHOOSE i \in 1..Len(ds) : ds[i].id = id
  ELSE 0

\* --------------------------------------------- Debt.addPartialPayment
\* addPartialPayment without the test against the remaining amount
addPartialPaymentAnyAmount(d, amount, paidOff, t) ==
  IF amount <= 0 THEN [ok |-> FALSE, debt |-> d]
  ELSE LET pushed == [d EXCEPT !.partialPayments = Append(@, amount)]
       IN  [ok |-> TRUE,
            debt |-> IF paidOff
                     THEN [pushed EXCEPT !.isPaid = TRUE, !.paidAt = t]
                     ELSE pushed]

\* paidOff is the outcome of remainingAmount <= 0.01 after the push
addPartialPayment(d, amount, paidOff, t) ==
  IF amount <= 0 THEN [ok |-> FALSE, debt |-> d]
  ELSE IF amount > remainingAmount(d) THEN [ok |-> FALSE, debt |-> d]
  ELSE LET pushed == [d EXCEPT !.partialPayments = Append(@, amount)]
       IN  [ok |-> TRUE,
            debt |-> IF paidOff
                     THEN [pushed EXCEPT !.isPaid = TRUE, !.paidAt = t]
                     ELSE pushed]

\* remainingAmount <= 0.01: the outcomes of the comparison
WithinTolerance(r) ==
  IF r < Tolerance THEN {TRUE} ELSE IF r > Tolerance THEN {FALSE} ELSE {TRUE, FALSE}

\* --------------------------------------------------- Debt.markAsPaid
\* markAsPaid without the final payment for the remaining amount
markAsPaidStampOnly(d, t) == [d EXCEPT !.isPaid = TRUE, !.paidAt = t]

markAsPaid(d, t) ==
  LET stamped == [d EXCEPT !.isPaid = TRUE, !.paidAt = t]
      remaining == remainingAmount(stamped)
  IN  IF remaining > 0
      THEN [stamped EXCEPT !.partialPayments = Append(@, remaining)]
      ELSE stamped

\* ------------------------------------------------- Debt.optimizeDebts
\* one pass of the loop over the unpaid debts of the group: ids are the _ids
\* still to visit, found the documents as find() returned them, debtMap the
\* map from "debtor-creditor" to the _id stored under it, ds the collection
RECURSIVE OptimizeLoop(_, _, _, _, _)
\* the loop with equal amounts settling the current debt only
OptimizeLoopTieKeepsMutual(ids, found, debtMap, ds, t) ==
  IF ids = <<>> THEN ds
  ELSE
    LET debt == found[IndexOf(found, Head(ids))]
        key1 == <<debt.debtor, debt.creditor>>
        key2 == <<debt.creditor, debt.debtor>>
    IN  IF key2 \in DOMAIN debtMap
        THEN
          LET mutualDebt == found[IndexOf(found, debtMap[key2])]
              netAmount == debt.amount - mutualDebt.amount
              i == IndexOf(ds, debt.id)
              j == IndexOf(ds, mutualDebt.id)
              ds2 ==
                IF netAmount > 0
                THEN [ds EXCEPT ![i].amount = netAmount,
                                ![j].isPaid = TRUE, ![j].paidAt = t,
                                ![j].notes = "Netted off with mutual debt"]
                ELSE IF netAmount < 0
                THEN [ds EXCEPT ![j].amount = Abs(netAmount),
                                ![i].isPaid = TRUE, ![i].paidAt = t,
                                ![i].notes = "Netted off with mutual debt"]
                ELSE [ds EXCEPT ![i].isPaid = TRUE, ![i].paidAt = t,
                                ![i].notes = "Netted off with equal mutual debt"]
              rest == [k \in DOMAIN debtMap \ {key2} |-> debtMap[k]]
          IN  OptimizeLoop(Tail(ids), found, rest, ds2, t)
        ELSE
          LET added == [k \in DOMAIN debtMap \cup {key1} |->
                          IF k = key1 THEN debt.id ELSE debtMap[k]]
          IN  OptimizeLoop(Tail(ids), found, added, ds, t)

OptimizeLoop(ids, found, debtMap, ds, t) ==
  IF ids = <<>> THEN ds
  ELSE
    LET debt == found[IndexOf(found, Head(ids))]
        key1 == <<debt.debtor, debt.creditor>>
        key2 == <<debt.creditor, debt.debtor>>
    IN  IF key2 \in DOMAIN debtMap
        THEN
          LET mutualDebt == found[IndexOf(found, debtMap[key2])]
              netAmount == debt.amount - mutualDebt.amount
              i == IndexOf(ds, debt.id)
              j == IndexOf(ds, mutualDebt.id)
              ds2 ==
                IF netAmount > 0
                THEN [ds EXCEPT ![i].amount = netAmount,
                                ![j].isPaid = TRUE, ![j].paidAt = t,
                                ![j].notes = "Netted off with mutual debt"]
                ELSE IF netAmount < 0
                THEN [ds EXCEPT ![j].amount = Abs(netAmount),
                                ![i].isPaid = TRUE, ![i].paidAt = t,
                                ![i].notes = "Netted off with mutual debt"]
                ELSE [ds EXCEPT ![i].isPaid = TRUE, ![i].paidAt = t,
                                ![i].notes = "Netted off with equal mutual debt",
                                ![j].isPaid = TRUE, ![j].paidAt = t,
                                ![j].notes = "Netted off with equal mutual debt"]
              rest == [k \in DOMAIN debtMap \ {key2} |-> debtMap[k]]
          IN  OptimizeLoop(Tail(ids), found, rest, ds2, t)
        ELSE
          LET added == [k \in DOMAIN debtMap \cup {key1} |->
                          IF k = key1 THEN debt.id ELSE debtMap[k]]
          IN  OptimizeLoop(Tail(ids), found, added, ds, t)

\* netting that settles the smaller debt of a pair and leaves the larger one
\* at its amount
optimizeDebtsLargerKept(groupId, ds, t) ==
  LET found == SelectSeq2(ds, {i \in 1..Len(ds) :
                                 ds[i].group = groupId /\ ~ds[i].isPaid})
      netted == OptimizeLoop([i \in 1..Len(found) |-> found[i].id], found, <<>>, ds, t)
  IN  [i \in 1..Len(netted) |->
         IF netted[i].isPaid THEN netted[i] ELSE [netted[i] EXCEPT !.amount = ds[i].amount]]

optimizeDebts(groupId, ds, t) ==
  LET found == SelectSeq2(ds, {i \in 1..Len(ds) :
                                 ds[i].group = groupId /\ ~ds[i].isPaid})
  IN  OptimizeLoop([i \in 1..Len(found) |-> found[i].id], found, <<>>, ds, t)

\* ------------------------------------------- debtCalculator.js
\* memberBalances after the loop over the expenses: what the member paid
\* minus the member's shares
MemberBalance(u, exps) ==
  LET RECURSIVE Shares(_)
      Shares(sd) == IF sd = <<>> THEN 0
                    ELSE (IF Head(sd).user = u THEN Head(sd).amount ELSE 0) + Shares(Tail(sd))
      RECURSIVE Total(_)
      Total(es) == IF es = {} THEN 0
                   ELSE LET e == CHOOSE x \in es : TRUE
                        IN  (IF e.paidBy = u THEN e.amount ELSE 0)
                            - Shares(e.splitDetails) + Total(es \ {e})
  IN  Total(exps)

\* the matching loop of calculateOptimalDebts
RECURSIVE MatchLoop(_, _, _, _, _)
MatchLoop(debtors, creditors, debtorIndex, creditorIndex, acc) ==
  IF ~(debtorIndex <= Len(debtors) /\ creditorIndex <= Len(creditors)) THEN acc
  ELSE
    LET debtor == debtors[debtorIndex]
        creditor == creditors[creditorIndex]
        settleAmount == Min(debtor.amount, creditor.amount)
        debtors2 == [debtors EXCEPT ![debtorIndex].amount = @ - settleAmount]
        creditors2 == [creditors EXCEPT ![creditorIndex].amount = @ - settleAmount]
    IN  MatchLoop(debtors2, creditors2,
                  IF debtors2[debtorIndex].amount < Tolerance
                  THEN debtorIndex + 1 ELSE debtorIndex,
                  IF creditors2[creditorIndex].amount < Tolerance
                  THEN creditorIndex + 1 ELSE creditorIndex,
                  Append(acc, [debtor |-> debtor.userId, creditor |-> creditor.userId,
                               amount |-> settleAmount]))

\* calculateOptimalDebts: balances is a function on the entries of mem, read
\* in the order of mem; a balance above 0.01 is listed under debtors, one
\* below -0.01 under creditors
calculateOptimalDebts(balances, mem) ==
  LET RECURSIVE Entries(_, _)
      Entries(m, positive) ==
        IF m = <<>> THEN <<>>
        ELSE LET b == balances[Head(m)]
             IN  (IF positive /\ b > Tolerance
                  THEN <<[userId |-> Head(m), amount |-> b]>>
                  ELSE IF ~positive /\ b < 0 - Tolerance
                  THEN <<[userId |-> Head(m), amount |-> Abs(b)]>>
                  ELSE <<>>) \o Entries(Tail(m), positive)
  IN  MatchLoop(Entries(mem, TRUE), Entries(mem, FALSE), 1, 1, <<>>)

\* the saves of the new Debt records: each gets a fresh _id; one whose key is
\* already in the collection is rejected by the unique index
RECURSIVE SaveAll(_, _, _, _)
SaveAll(newDebts, ds, id, ok) ==
  IF newDebts = <<>> THEN [ok |-> ok, debts |-> ds, nextDebtId |-> id]
  ELSE LET d == NewDebt(id, Head(newDebts).debtor, Head(newDebts).creditor, 0,
                        Head(newDebts).amount, -1, "pending")
       IN  IF DuplicateKey(ds, d)
           THEN SaveAll(Tail(newDebts), ds, id + 1, FALSE)
           ELSE SaveAll(Tail(newDebts), Append(ds, d), id + 1, ok)

\* calculateDebts that adds the new records to the pending debts it finds,
\* on a collection without the unique index
calculateDebtsKeepPending(groupId, mem, exps, ds, id) ==
  LET ofGroup == {e \in exps : e.group = groupId}
  IN  IF groupId # "G"
      THEN [ok |-> FALSE, debts |-> ds, nextDebtId |-> id]
      ELSE IF \E e \in ofGroup : ~e.hasSplitDetails
      THEN [ok |-> FALSE, debts |-> ds, nextDebtId |-> id]
      ELSE
        LET memberBalances == [u \in {mem[i] : i \in DOMAIN mem} |-> MemberBalance(u, ofGroup)]
            new == calculateOptimalDebts(memberBalances, mem)
        IN  [ok |-> TRUE,
             debts |-> ds \o [i \in 1..Len(new) |->
                                NewDebt(id + i - 1, new[i].debtor, new[i].creditor, 0,
                                        new[i].amount, -1, "pending")],
             nextDebtId |-> id + Len(new)]

\* calculateDebts(groupId) on the collections exps and ds, for the group "G"
\* with member list mem
calculateDebts(groupId, mem, exps, ds, id) ==
  LET ofGroup == {e \in exps : e.group = groupId}
  IN  IF groupId # "G"
      THEN [ok |-> FALSE, debts |-> ds, nextDebtId |-> id]
      ELSE IF \E e \in ofGroup : ~e.hasSplitDetails
      THEN [ok |-> FALSE, debts |-> ds, nextDebtId |-> id]
      ELSE
        LET memberBalances == [u \in {mem[i] : i \in DOMAIN mem} |-> MemberBalance(u, ofGroup)]
            kept == SelectSeq2(ds, {i \in 1..Len(ds) :
                                      ~(ds[i].group = groupId /\ ds[i].status = "pending")})
        IN  SaveAll(calculateOptimalDebts(memberBalances, mem), kept, id, TRUE)

\* the number of records calculateDebts asks the store to create
CalculatedCount(groupId, mem, exps) ==
  IF groupId # "G" \/ \E e \in exps : e.group = groupId /\ ~e.hasSplitDetails THEN 0
  ELSE Len(calculateOptimalDebts(
             [u \in {mem[i] : i \in DOMAIN mem} |->
                MemberBalance(u, {e \in exps : e.group = groupId})], mem))

\* ------------------------------------------- the derive loop of the scripts
\* one Debt per split whose user is not the payer, inserted in order; the
\* insert stops at the first key the unique index rejects
RECURSIVE DeriveLoop(_, _, _, _)
\* the derive loop with the test on the payer inverted: a debt for the
\* payer's own split and none for the others
DeriveLoopPayerSplit(e, splits, ds, id) ==
  IF splits = <<>> THEN [ok |-> TRUE, debts |-> ds, nextDebtId |-> id]
  ELSE IF Head(splits).user # e.paidBy THEN DeriveLoop(e, Tail(splits), ds, id)
  ELSE LET d == NewDebt(id, Head(splits).user, e.paidBy, e.id,
                        Head(splits).amount, Head(splits).amount, "undefined")
       IN  IF DuplicateKey(ds, d)
           THEN [ok |-> FALSE, debts |-> ds, nextDebtId |-> id + 1]
           ELSE DeriveLoop(e, Tail(splits), Append(ds, d), id + 1)

DeriveLoop(e, splits, ds, id) ==
  IF splits = <<>> THEN [ok |-> TRUE, debts |-> ds, nextDebtId |-> id]
  ELSE IF Head(splits).user = e.paidBy THEN DeriveLoop(e, Tail(splits), ds, id)
  ELSE LET d == NewDebt(id, Head(splits).user, e.paidBy, e.id,
                        Head(splits).amount, Head(splits).amount, "undefined")
       IN  IF DuplicateKey(ds, d)
           THEN [ok |-> FALSE, debts |-> ds, nextDebtId |-> id + 1]
           ELSE DeriveLoop(e, Tail(splits), Append(ds, d), id + 1)

deriveDebts(e, ds, id) == DeriveLoop(e, e.splits, ds, id)

\* ------------------------------------------- client debt store (getters)
\* no operation of the server sets isSettled, so the filter !d.isSettled
\* keeps every debt of the list
RECURSIVE getUserOwedAmount(_, _)
getUserOwedAmount(userId, ds) ==
  IF ds = <<>> THEN 0
  ELSE (IF Head(ds).creditor = userId THEN Head(ds).amount ELSE 0)
       + getUserOwedAmount(userId, Tail(ds))

RECURSIVE getUserOwingAmount(_, _)
getUserOwingAmount(userId, ds) ==
  IF ds = <<>> THEN 0
  ELSE (IF Head(ds).debtor = userId THEN Head(ds).amount ELSE 0)
       + getUserOwingAmount(userId, Tail(ds))

getUserNetBalance(userId, ds) ==
  getUserOwedAmount(userId, ds) - getUserOwingAmount(userId, ds)

\* ------------------------------------------ split calculator: the actions
calculateEqualSplits(userIds) ==
  \E r \in EqualShare(exp.amount, Len(userIds)), p \in EqualPercentage(Len(userIds)) :
    /\ exp' = EqualSplits(exp, userIds, r, p)
    /\ splitOp' = [op |-> "equal", ok |-> TRUE, total |-> "within"]
    /\ UNCHANGED <<ledgerVars, sideVars>>

calculateCustomSplits(customSplits) ==
  \E exceeds \in ExceedsTolerance(SumAmount(customSplits), exp.amount),
     pcts \in CustomPercentages(exp, customSplits) :
    LET res == CustomSplits(exp, customSplits, exceeds, pcts)
    IN  /\ exp' = res.exp
        /\ splitOp' = [op |-> "custom", ok |-> res.ok,
                       total |-> Distance(SumAmount(customSplits), exp.amount)]
        /\ UNCHANGED <<ledgerVars, sideVars>>

calculatePercentageSplits(percentageSplits) ==
  \E exceeds \in ExceedsTolerance(SumPercentage(percentageSplits), FullPercent),
     amts \in PercentageAmounts(exp, percentageSplits) :
    LET res == PercentageSplits(exp, percentageSplits, exceeds, amts)
    IN  /\ exp' = res.exp
        /\ splitOp' = [op |-> "percentage", ok |-> res.ok,
                       total |-> Distance(SumPercentage(percentageSplits), FullPercent)]
        /\ UNCHANGED <<ledgerVars, sideVars>>


\* ------------------------------------------------------ ledger: the actions
Done(op, ok) == lastOp' = [op |-> op, ok |-> ok]

\* an operation that stamps a date runs at its own time: the clock moves on
\* when it has written
Stamped(changed) ==
  /\ now <= MaxTime
  /\ now' = IF changed THEN now + 1 ELSE now

\* an Expense document; hasSplitDetails is false when the field is undefined
NewExpense(id, paidBy, amount, splits, hasSplitDetails, splitDetails) ==
  [id |-> id, group |-> "G", paidBy |-> paidBy, amount |-> amount,
   splits |-> splits, splitMethod |-> "equal",
   hasSplitDetails |-> hasSplitDetails, splitDetails |-> splitDetails,
   isActive |-> TRUE]

\* the splitDetails of a request body: equal shares of the amount for every
\* member
SplitDetailsArgs(amount) ==
  {[has |-> TRUE,
    list |-> [i \in 1..Len(members) |->
                [user |-> members[i], amount |-> amount \div Len(members)]]]}

\* room for the Debt records a recalculation over exps creates
RoomFor(groupId, exps) ==
  (nextDebtId + CalculatedCount(groupId, members, exps) - 1) \in DebtIds \cup {0}

\* the recalculation a controller ends with
Recalculate(op, groupId, exps) ==
  LET res == calculateDebts(groupId, members, exps, debts, nextDebtId)
  IN  /\ debts' = res.debts
      /\ nextDebtId' = res.nextDebtId
      /\ Done(op, res.ok)

\* POST /api/expenses
createExpense(user, groupId, amount, sd) ==
  /\ nextExpenseId \in ExpenseIds
  /\ UNCHANGED <<splitVars, sideVars, calls, members, now>>
  /\ IF groupId # "G" \/ user \notin {members[i] : i \in DOMAIN members}
     THEN /\ Done("createExpense", FALSE)
          /\ UNCHANGED <<expenses, debts, nextExpenseId, nextDebtId>>
     ELSE LET expense == NewExpense(nextExpenseId, user, amount, <<>>, sd.has, sd.list)
          IN  /\ RoomFor(groupId, expenses \cup {expense})
              /\ expenses' = expenses \cup {expense}
              /\ nextExpenseId' = nextExpenseId + 1
              /\ Recalculate("createExpense", groupId, expenses')

\* DELETE /api/expenses/:id
deleteExpense(id, user) ==
  /\ UNCHANGED <<splitVars, sideVars, calls, members, now, nextExpenseId>>
  /\ IF ~\E e \in expenses : e.id = id
     THEN /\ Done("deleteExpense", FALSE)
          /\ UNCHANGED <<expenses, debts, nextDebtId>>
     ELSE LET expense == CHOOSE e \in expenses : e.id = id
          IN  IF expense.paidBy # user
              THEN /\ Done("deleteExpense", FALSE)
                   /\ UNCHANGED <<expenses, debts, nextDebtId>>
              ELSE /\ RoomFor(expense.group, expenses \ {expense})
                   /\ expenses' = expenses \ {expense}
                   /\ Recalculate("deleteExpense", expense.group, expenses')

\* the bodies of the update requests: an amount (0 when the body has none)
\* and splitDetails (has is false when the body has none)
UpdateArgs ==
  {[amount |-> a, sd |-> sd] :
     a \in ExpenseAmounts \cup {0},
     sd \in {[has |-> FALSE, list |-> <<>>]}
             \cup UNION {SplitDetailsArgs(x) : x \in ExpenseAmounts}}

\* PUT /api/expenses/:id
updateExpense(id, user, body) ==
  /\ UNCHANGED <<splitVars, sideVars, calls, members, now, nextExpenseId>>
  /\ IF ~\E e \in expenses : e.id = id
     THEN /\ Done("updateExpense", FALSE)
          /\ UNCHANGED <<expenses, debts, nextDebtId>>
     ELSE LET expense == CHOOSE e \in expenses : e.id = id
              updated == [expense EXCEPT
                            !.amount = IF body.amount # 0 THEN body.amount ELSE @,
                            !.hasSplitDetails = body.sd.has \/ @,
                            !.splitDetails = IF body.sd.has THEN body.sd.list ELSE @]
          IN  IF expense.paidBy # user
              THEN /\ Done("updateExpense", FALSE)
                   /\ UNCHANGED <<expenses, debts, nextDebtId>>
              ELSE \E exceeds \in ExceedsTolerance(SumAmount(updated.splits), updated.amount) :
                     IF Len(updated.splits) > 0 /\ exceeds
                     THEN /\ Done("updateExpense", FALSE)
                          /\ UNCHANGED <<expenses, debts, nextDebtId>>
                     ELSE /\ RoomFor(updated.group, (expenses \ {expense}) \cup {updated})
                          /\ expenses' = (expenses \ {expense}) \cup {updated}
                          /\ Recalculate("updateExpense", updated.group, expenses')

\* POST /api/debts/group/:groupId/calculate
calculateGroupDebts(groupId, user) ==
  /\ UNCHANGED <<splitVars, sideVars, calls, members, now, expenses, nextExpenseId>>
  /\ IF groupId # "G" \/ user \notin {members[i] : i \in DOMAIN members}
     THEN /\ Done("calculateGroupDebts", FALSE)
          /\ UNCHANGED <<debts, nextDebtId>>
     ELSE /\ RoomFor(groupId, expenses)
          /\ Recalculate("calculateGroupDebts", groupId, expenses)

\* POST /api/debts/:id/settle
settleDebt(id, user) ==
  /\ UNCHANGED <<splitVars, sideVars, calls, members, expenses, nextExpenseId, nextDebtId>>
  /\ LET i == IndexOf(debts, id)
     IN  IF i = 0
         THEN Done("settleDebt", FALSE) /\ UNCHANGED <<debts, now>>
         ELSE IF ~(debts[i].creditor = user \/ debts[i].debtor = user)
         THEN Done("settleDebt", FALSE) /\ UNCHANGED <<debts, now>>
         ELSE /\ debts' = [debts EXCEPT ![i].status = "settled", ![i].settledAt = now]
              /\ Stamped(TRUE)
              /\ Done("settleDebt", TRUE)

\* the scripts: new Expense, calculateEqualSplits over the members, save();
\* the pre-save hook rejects splits whose total is off by more than 0.01
saveEqualExpense(payer, amount) ==
  /\ nextExpenseId \in ExpenseIds
  /\ UNCHANGED <<splitVars, sideVars, calls, members, now, debts, nextDebtId>>
  /\ \E r \in EqualShare(amount, Len(members)), p \in EqualPercentage(Len(members)) :
       LET fresh == NewExpense(nextExpenseId, payer, amount, <<>>, FALSE, <<>>)
           expense == EqualSplits(fresh, members, r, p)
       IN  \E exceeds \in ExceedsTolerance(SumAmount(expense.splits), expense.amount) :
             IF Len(expense.splits) > 0 /\ exceeds
             THEN Done("saveEqualExpense", FALSE) /\ UNCHANGED <<expenses, nextExpenseId>>
             ELSE /\ expenses' = expenses \cup {expense}
                  /\ nextExpenseId' = nextExpenseId + 1
                  /\ Done("saveEqualExpense", TRUE)

\* the scripts: create the debts of a saved expense
deriveFromExpense(id) ==
  /\ \E e \in expenses : e.id = id
  /\ UNCHANGED <<splitVars, sideVars, calls, members, now, expenses, nextExpenseId>>
  /\ LET expense == CHOOSE e \in expenses : e.id = id
         res == deriveDebts(expense, debts, nextDebtId)
     IN  /\ (res.nextDebtId - 1) \in DebtIds \cup {0}
         /\ debts' = res.debts
         /\ nextDebtId' = res.nextDebtId
         /\ Done("deriveFromExpense", res.ok)

\* debt.addPartialPayment(amount)
payPartially(id, amount) ==
  /\ IndexOf(debts, id) # 0
  /\ UNCHANGED <<splitVars, sideVars, calls, members, expenses, nextExpenseId, nextDebtId>>
  /\ LET i == IndexOf(debts, id)
         after == remainingAmount([debts[i] EXCEPT !.partialPayments = Append(@, amount)])
     IN  \E paidOff \in WithinTolerance(after) :
           LET res == addPartialPayment(debts[i], amount, paidOff, now)
           IN  /\ debts' = [debts EXCEPT ![i] = res.debt]
               /\ Stamped(res.ok)
               /\ Done("addPartialPayment", res.ok)

\* debt.markAsPaid()
payInFull(id) ==
  /\ IndexOf(debts, id) # 0
  /\ UNCHANGED <<splitVars, sideVars, calls, members, expenses, nextExpenseId, nextDebtId>>
  /\ debts' = [debts EXCEPT ![IndexOf(debts, id)] = markAsPaid(@, now)]
  /\ Stamped(TRUE)
  /\ Done("markAsPaid", TRUE)

\* Debt.optimizeDebts(groupId)
optimize(groupId) ==
  /\ UNCHANGED <<splitVars, sideVars, calls, members, expenses, nextExpenseId, nextDebtId>>
  /\ debts' = optimizeDebts(groupId, debts, now)
  /\ Stamped(debts' # debts)
  /\ Done("optimizeDebts", TRUE)

\* the callers whose requests can be in flight together
Callers == {1, 2}

\* a caller with no request in flight
Idle ==
  [pc |-> "idle", kind |-> "none", todo |-> <<>>, ok |-> TRUE,
   id |-> 0, amount |-> 0, paid |-> FALSE]

\* no run of calculateOptimalDebts under way
NoMatch ==
  [pc |-> "none", balances |-> <<>>, debtors |-> <<>>, creditors |-> <<>>,
   debtorIndex |-> 0, creditorIndex |-> 0, debts |-> <<>>, steps |-> 0]

\* the server before any request: accounts is the User collection, each user
\* id active, deactivated or with no document
NoRequest(accounts) ==
  [hits |-> 0, users |-> accounts, status |-> 0, handled |-> FALSE, user |-> "none"]

\* no Group document persisted yet
NoGroup ==
  [exists |-> FALSE, createdBy |-> "none", members |-> <<>>, op |-> "none", ok |-> TRUE]

\* nothing under way beside the ledger
InitSide == match = NoMatch /\ group = NoGroup /\ http = NoRequest([u \in {"A", "B"} |-> "active"])

\* a group with the member list mem, and empty collections
InitLedger(mem) ==
  /\ InitSide
  /\ calls = [p \in Callers |-> Idle]
  /\ members = mem
  /\ expenses = {}
  /\ debts = <<>>
  /\ nextExpenseId = 1
  /\ nextDebtId = 1
  /\ now = 1
  /\ lastOp = [op |-> "none", ok |-> TRUE]

Init ==
  /\ exp = [amount |-> 1, paidBy |-> "A", splits |-> <<>>, splitMethod |-> "equal"]
  /\ splitOp = [op |-> "none", ok |-> TRUE, total |-> "within"]
  /\ InitLedger(<<"A", "B">>)

Next ==
  \/ \E user \in Requesters, groupId \in GroupIds, amount \in ExpenseAmounts :
       \E sd \in SplitDetailsArgs(amount) : createExpense(user, groupId, amount, sd)
  \/ \E id \in ExpenseIds, user \in Requesters : deleteExpense(id, user)
  \/ \E groupId \in GroupIds, user \in Requesters : calculateGroupDebts(groupId, user)
  \/ \E id \in DebtIds, user \in Requesters : settleDebt(id, user)
  \/ \E payer \in Participants, amount \in ExpenseAmounts : saveEqualExpense(payer, amount)
  \/ \E id \in ExpenseIds : deriveFromExpense(id)
  \/ \E id \in DebtIds, amount \in PaymentAmounts : payPartially(id, amount)
  \/ \E id \in DebtIds : payInFull(id)
  \/ \E groupId \in GroupIds : optimize(groupId)

Spec == Init /\ [][Next]_vars

\* the scripts alone: expenses saved with equal splits, debts derived from
\* them, and the methods of the Debt model
NextDebt ==
  \/ \E payer \in Participants, amount \in ExpenseAmounts : saveEqualExpense(payer, amount)
  \/ \E id \in ExpenseIds : deriveFromExpense(id)
  \/ \E id \in DebtIds, amount \in PaymentAmounts : payPartially(id, amount)
  \/ \E id \in DebtIds : payInFull(id)
  \/ \E groupId \in GroupIds : optimize(groupId)

SpecDebt == Init /\ [][NextDebt]_vars

\* the expense requests, on expenses created by request or saved by the
\* scripts
NextExpense ==
  \/ \E user \in Requesters, groupId \in GroupIds, amount \in ExpenseAmounts :
       \E sd \in SplitDetailsArgs(amount) : createExpense(user, groupId, amount, sd)
  \/ \E payer \in Participants, amount \in ExpenseAmounts : saveEqualExpense(payer, amount)
  \/ \E id \in ExpenseIds, user \in Requesters, body \in UpdateArgs :
       updateExpense(id, user, body)
  \/ \E id \in ExpenseIds, user \in Requesters : deleteExpense(id, user)

SpecExpense == Init /\ [][NextExpense]_vars

\* the scripts on a group of three members
InitTrio ==
  /\ exp = [amount |-> 1, paidBy |-> "A", splits |-> <<>>, splitMethod |-> "equal"]
  /\ splitOp = [op |-> "none", ok |-> TRUE, total |-> "within"]
  /\ InitLedger(Members)

SpecTrio == InitTrio /\ [][NextDebt]_vars

\* ---------------------------------------- a book of derived debts
\* the _ids, and the shares in cents, of the debts of the book
BookIds == {1, 2, 3}
BookAmounts == {2, 3, 4}

\* an expense of two equal shares paid by payer, as the scripts save it
BookExpense(id, payer, share) ==
  EqualSplits(NewExpense(id, payer, 2 * share, <<>>, FALSE, <<>>),
              <<"A", "B">>, share, FullPercent \div 2)

\* the derive loop run over the expenses es in order
RECURSIVE DeriveAll(_, _, _)
DeriveAll(es, ds, id) ==
  IF es = <<>> THEN ds
  ELSE LET res == deriveDebts(Head(es), ds, id)
       IN  DeriveAll(Tail(es), res.debts, res.nextDebtId)

\* two members, two or three expenses saved by the scripts and their debts
\* derived
InitBook ==
  /\ exp = [amount |-> 1, paidBy |-> "A", splits |-> <<>>, splitMethod |-> "equal"]
  /\ splitOp = [op |-> "none", ok |-> TRUE, total |-> "within"]
  /\ members = <<"A", "B">>
  /\ \E n \in 2..3 :
       \E payers \in [1..n -> {"A", "B"}], shares \in [1..n -> BookAmounts] :
         LET es == [i \in 1..n |-> BookExpense(i, payers[i], shares[i])]
         IN  /\ expenses = {es[i] : i \in 1..n}
             /\ debts = DeriveAll(es, <<>>, 1)
             /\ nextExpenseId = n + 1
             /\ nextDebtId = n + 1
  /\ now = 1
  /\ lastOp = [op |-> "deriveFromExpense", ok |-> TRUE]
  /\ calls = [p \in Callers |-> Idle]
  /\ InitSide

NextBook ==
  \/ \E id \in BookIds, amount \in 0..MaxAmount : payPartially(id, amount)
  \/ \E id \in BookIds : payInFull(id)
  \/ \E groupId \in GroupIds : optimize(groupId)

SpecBook == InitBook /\ [][NextBook]_vars

\* the book of three expenses, the first of them and its debt in another group
InitBooks ==
  /\ exp = [amount |-> 1, paidBy |-> "A", splits |-> <<>>, splitMethod |-> "equal"]
  /\ splitOp = [op |-> "none", ok |-> TRUE, total |-> "within"]
  /\ members = <<"A", "B">>
  /\ \E payers \in [1..3 -> {"A", "B"}], shares \in [1..3 -> BookAmounts] :
       LET es == [i \in 1..3 |-> BookExpense(i, payers[i], shares[i])]
           ds == DeriveAll(es, <<>>, 1)
       IN  /\ expenses = {[es[i] EXCEPT !.group = IF i = 1 THEN "X" ELSE "G"] : i \in 1..3}
           /\ debts = [i \in 1..Len(ds) |->
                         [ds[i] EXCEPT !.group = IF ds[i].expense = 1 THEN "X" ELSE "G"]]
  /\ nextExpenseId = 4
  /\ nextDebtId = 4
  /\ now = 1
  /\ lastOp = [op |-> "deriveFromExpense", ok |-> TRUE]
  /\ calls = [p \in Callers |-> Idle]
  /\ InitSide

SpecBooks == InitBooks /\ [][NextBook]_vars

\* ------------------------------------- requests in flight: recalculation
\* a request handler runs up to its next await, then another caller may run
RaceFrame == UNCHANGED <<splitVars, sideVars, members, now>>

\* POST /api/expenses up to the end of expense.save()
requestCreateExpense(p, user, amount, sd) ==
  /\ calls[p].pc = "idle"
  /\ RaceFrame
  /\ UNCHANGED <<debts, nextDebtId>>
  /\ IF user \notin {members[i] : i \in DOMAIN members}
     THEN /\ calls' = [calls EXCEPT ![p] = [Idle EXCEPT !.pc = "done", !.ok = FALSE,
                                                       !.kind = "createExpense"]]
          /\ Done("createExpense", FALSE)
          /\ UNCHANGED <<expenses, nextExpenseId>>
     ELSE /\ expenses' = expenses \cup
                           {NewExpense(nextExpenseId, user, amount, <<>>, sd.has, sd.list)}
          /\ nextExpenseId' = nextExpenseId + 1
          /\ calls' = [calls EXCEPT ![p] = [Idle EXCEPT !.pc = "saved",
                                                       !.kind = "createExpense"]]
          /\ UNCHANGED lastOp

\* POST /api/debts/group/:groupId/calculate up to the call of calculateDebts
requestCalculate(p, user) ==
  /\ calls[p].pc = "idle"
  /\ RaceFrame
  /\ UNCHANGED <<expenses, nextExpenseId, debts, nextDebtId>>
  /\ IF user \notin {members[i] : i \in DOMAIN members}
     THEN /\ calls' = [calls EXCEPT ![p] = [Idle EXCEPT !.pc = "done", !.ok = FALSE,
                                                       !.kind = "calculateGroupDebts"]]
          /\ Done("calculateGroupDebts", FALSE)
     ELSE /\ calls' = [calls EXCEPT ![p] = [Idle EXCEPT !.pc = "saved",
                                                       !.kind = "calculateGroupDebts"]]
          /\ UNCHANGED lastOp

\* calculateDebts: Expense.find and Group.findById; the balances, and from
\* them the debts to create, are computed from what was read here
findExpenses(p) ==
  /\ calls[p].pc = "saved"
  /\ RaceFrame
  /\ UNCHANGED <<expenses, nextExpenseId, debts, nextDebtId>>
  /\ IF \E e \in expenses : ~e.hasSplitDetails
     THEN /\ calls' = [calls EXCEPT ![p].pc = "done", ![p].ok = FALSE]
          /\ Done(calls[p].kind, FALSE)
     ELSE /\ calls' = [calls EXCEPT
                         ![p].pc = "found",
                         ![p].todo = calculateOptimalDebts(
                            [u \in {members[i] : i \in DOMAIN members} |->
                               MemberBalance(u, expenses)], members)]
          /\ UNCHANGED lastOp

\* calculateDebts: Debt.deleteMany({group, status: "pending"})
clearPending(p) ==
  /\ calls[p].pc = "found"
  /\ RaceFrame
  /\ UNCHANGED <<expenses, nextExpenseId, nextDebtId>>
  /\ debts' = SelectSeq2(debts, {i \in 1..Len(debts) :
                                   ~(debts[i].group = "G" /\ debts[i].status = "pending")})
  /\ IF calls[p].todo = <<>>
     THEN /\ calls' = [calls EXCEPT ![p].pc = "done"]
          /\ Done(calls[p].kind, TRUE)
     ELSE /\ calls' = [calls EXCEPT ![p].pc = "cleared"]
          /\ UNCHANGED lastOp

\* calculateDebts: one save() of the new Debt records; the handler answers
\* when the last one has come back
saveDebt(p) ==
  /\ calls[p].pc = "cleared"
  /\ RaceFrame
  /\ UNCHANGED <<expenses, nextExpenseId>>
  /\ LET res == SaveAll(<<Head(calls[p].todo)>>, debts, nextDebtId, calls[p].ok)
         last == Len(calls[p].todo) = 1
     IN  /\ debts' = res.debts
         /\ nextDebtId' = res.nextDebtId
         /\ calls' = [calls EXCEPT ![p].todo = Tail(@), ![p].ok = res.ok,
                                    ![p].pc = IF last THEN "done" ELSE "cleared"]
         /\ IF last THEN Done(calls[p].kind, res.ok) ELSE UNCHANGED lastOp

NextRace ==
  \/ \E p \in Callers, user \in Requesters, amount \in ExpenseAmounts :
       \E sd \in SplitDetailsArgs(amount) : requestCreateExpense(p, user, amount, sd)
  \/ \E p \in Callers, user \in Requesters : requestCalculate(p, user)
  \/ \E p \in Callers : findExpenses(p)
  \/ \E p \in Callers : clearPending(p)
  \/ \E p \in Callers : saveDebt(p)

SpecRace == Init /\ [][NextRace]_vars

\* ------------------------------------------ requests in flight: payments
\* what save() writes for a document loaded as snapshot and changed in memory
\* to mutated: the elements pushed onto partialPayments are appended to the
\* stored list, a changed isPaid or paidAt is set
SaveDelta(stored, snapshot, mutated) ==
  [stored EXCEPT
     !.partialPayments = @ \o SubSeq(mutated.partialPayments,
                                      Len(snapshot.partialPayments) + 1,
                                      Len(mutated.partialPayments)),
     !.isPaid = IF mutated.isPaid # snapshot.isPaid THEN mutated.isPaid ELSE @,
     !.paidAt = IF mutated.paidAt # snapshot.paidAt THEN mutated.paidAt ELSE @]

\* a caller loads the debt and calls addPartialPayment on its copy: the
\* method tests the amount against the copy and, if it passes, issues save()
loadAndPay(p, id, amount) ==
  /\ calls[p].pc = "idle"
  /\ IndexOf(debts, id) # 0
  /\ RaceFrame
  /\ UNCHANGED <<expenses, nextExpenseId, debts, nextDebtId>>
  /\ LET snapshot == debts[IndexOf(debts, id)]
         after == remainingAmount([snapshot EXCEPT !.partialPayments = Append(@, amount)])
     IN  \E paidOff \in WithinTolerance(after) :
           LET res == addPartialPayment(snapshot, amount, paidOff, now)
           IN  /\ calls' = [calls EXCEPT ![p] =
                              [Idle EXCEPT !.pc = IF res.ok THEN "saving" ELSE "done",
                                           !.kind = "addPartialPayment", !.ok = res.ok,
                                           !.id = id,
                                           !.amount = IF res.ok THEN amount ELSE 0,
                                           !.paid = res.debt.isPaid # snapshot.isPaid]]
               /\ IF res.ok THEN UNCHANGED lastOp ELSE Done("addPartialPayment", FALSE)

\* a caller loads the debt and calls markAsPaid on its copy
loadAndMark(p, id) ==
  /\ calls[p].pc = "idle"
  /\ IndexOf(debts, id) # 0
  /\ RaceFrame
  /\ UNCHANGED <<expenses, nextExpenseId, debts, nextDebtId, lastOp>>
  /\ LET snapshot == debts[IndexOf(debts, id)]
         mutated == markAsPaid(snapshot, now)
     IN  calls' = [calls EXCEPT ![p] =
                     [Idle EXCEPT !.pc = "saving", !.kind = "markAsPaid", !.id = id,
                                  !.amount = totalPaid(mutated) - totalPaid(snapshot),
                                  !.paid = mutated.isPaid # snapshot.isPaid]]

\* the save() of the caller reaches the store
savePayment(p) ==
  /\ calls[p].pc = "saving"
  /\ RaceFrame
  /\ UNCHANGED <<expenses, nextExpenseId, nextDebtId>>
  /\ LET i == IndexOf(debts, calls[p].id)
         snapshot == [debts[i] EXCEPT !.partialPayments = <<>>, !.isPaid = FALSE, !.paidAt = 0]
         mutated == [snapshot EXCEPT
                       !.partialPayments = IF calls[p].amount > 0
                                           THEN <<calls[p].amount>> ELSE <<>>,
                       !.isPaid = calls[p].paid,
                       !.paidAt = IF calls[p].paid THEN now ELSE 0]
     IN  debts' = [debts EXCEPT ![i] = SaveDelta(@, snapshot, mutated)]
  /\ calls' = [calls EXCEPT ![p].pc = "done"]
  /\ Done(calls[p].kind, TRUE)

NextPayRace ==
  \/ \E p \in Callers, id \in DebtIds, amount \in 0..MaxAmount : loadAndPay(p, id, amount)
  \/ \E p \in Callers, id \in DebtIds : loadAndMark(p, id)
  \/ \E p \in Callers : savePayment(p)

SpecPayRace == InitBook /\ [][NextPayRace]_vars

\* a new Expense document: no splits yet, splitMethod at its default
InitSplit ==
  /\ exp \in [amount : 1..MaxAmount, paidBy : Participants,
               splits : {<<>>}, splitMethod : {"equal"}]
  /\ splitOp = [op |-> "none", ok |-> TRUE, total |-> "within"]
  /\ InitLedger(Members)

NextSplit ==
  \/ \E userIds \in DistinctSeqs(Participants) : calculateEqualSplits(userIds)
  \/ \E customSplits \in CustomArgs : calculateCustomSplits(customSplits)
  \/ \E percentageSplits \in PercentageArgs : calculatePercentageSplits(percentageSplits)

SpecSplit == InitSplit /\ [][NextSplit]_vars

\* ------------------------------- calculateOptimalDebts, one step at a time
\* the members of a balance sheet, in the order of Object.entries(balances)
SheetMembers == <<"A", "B", "C", "D">>
SheetUsers == {SheetMembers[i] : i \in DOMAIN SheetMembers}

\* the balance sheets: positive, the member owes the group
Sheets == [SheetUsers -> (0 - MaxAmount)..MaxAmount]

\* the debtors and creditors lists filled by the forEach over the entries
RECURSIVE Debtors(_, _)
Debtors(balances, mem) ==
  IF mem = <<>> THEN <<>>
  ELSE (IF balances[Head(mem)] > Tolerance
        THEN <<[userId |-> Head(mem), amount |-> balances[Head(mem)]]>>
        ELSE <<>>) \o Debtors(balances, Tail(mem))

RECURSIVE Creditors(_, _)
Creditors(balances, mem) ==
  IF mem = <<>> THEN <<>>
  ELSE (IF ~(balances[Head(mem)] > Tolerance) /\ balances[Head(mem)] < 0 - Tolerance
        THEN <<[userId |-> Head(mem), amount |-> Abs(balances[Head(mem)])]>>
        ELSE <<>>) \o Creditors(balances, Tail(mem))

\* one iteration that moves on only past an amount below zero
MatchStepNeverSettled(m) ==
  LET debtor == m.debtors[m.debtorIndex]
      creditor == m.creditors[m.creditorIndex]
      settleAmount == Min(debtor.amount, creditor.amount)
  IN  [m EXCEPT
         !.debts = Append(@, [debtor |-> debtor.userId, creditor |-> creditor.userId,
                              amount |-> settleAmount]),
         !.debtors[m.debtorIndex].amount = @ - settleAmount,
         !.creditors[m.creditorIndex].amount = @ - settleAmount,
         !.debtorIndex = IF debtor.amount - settleAmount < 0 THEN @ + 1 ELSE @,
         !.creditorIndex = IF creditor.amount - settleAmount < 0 THEN @ + 1 ELSE @,
         !.steps = @ + 1]

\* one iteration of the while loop
MatchStep(m) ==
  LET debtor == m.debtors[m.debtorIndex]
      creditor == m.creditors[m.creditorIndex]
      settleAmount == Min(debtor.amount, creditor.amount)
  IN  [m EXCEPT
         !.debts = Append(@, [debtor |-> debtor.userId, creditor |-> creditor.userId,
                              amount |-> settleAmount]),
         !.debtors[m.debtorIndex].amount = @ - settleAmount,
         !.creditors[m.creditorIndex].amount = @ - settleAmount,
         !.debtorIndex = IF debtor.amount - settleAmount < Tolerance THEN @ + 1 ELSE @,
         !.creditorIndex = IF creditor.amount - settleAmount < Tolerance THEN @ + 1 ELSE @,
         !.steps = @ + 1]

\* the loop condition
Matching(m) ==
  m.debtorIndex <= Len(m.debtors) /\ m.creditorIndex <= Len(m.creditors)

MatchFrame == UNCHANGED <<splitVars, ledgerVars, group, http>>

\* the entries of the balances are sorted into debtors and creditors
listBalances ==
  /\ match.pc = "start"
  /\ match' = [match EXCEPT !.pc = "loop",
                            !.debtors = Debtors(match.balances, SheetMembers),
                            !.creditors = Creditors(match.balances, SheetMembers),
                            !.debtorIndex = 1, !.creditorIndex = 1]
  /\ MatchFrame

matchStep ==
  /\ match.pc = "loop"
  /\ Matching(match)
  /\ match' = MatchStep(match)
  /\ MatchFrame

returnDebts ==
  /\ match.pc = "loop"
  /\ ~Matching(match)
  /\ match' = [match EXCEPT !.pc = "done"]
  /\ MatchFrame

InitMatch ==
  /\ exp = [amount |-> 1, paidBy |-> "A", splits |-> <<>>, splitMethod |-> "equal"]
  /\ splitOp = [op |-> "none", ok |-> TRUE, total |-> "within"]
  /\ calls = [p \in Callers |-> Idle]
  /\ members = SheetMembers
  /\ expenses = {}
  /\ debts = <<>>
  /\ nextExpenseId = 1
  /\ nextDebtId = 1
  /\ now = 1
  /\ lastOp = [op |-> "none", ok |-> TRUE]
  /\ group = NoGroup
  /\ http = NoRequest([u \in {"A", "B"} |-> "active"])
  /\ \E balances \in Sheets : match = [NoMatch EXCEPT !.pc = "start", !.balances = balances]

NextMatch == listBalances \/ matchStep \/ returnDebts

SpecMatch == InitMatch /\ [][NextMatch]_vars

\* the scripts' calculateEqualSplits and save() on a group of four members,
\* for the amounts of a few cents
InitQuad ==
  /\ exp = [amount |-> 1, paidBy |-> "A", splits |-> <<>>, splitMethod |-> "equal"]
  /\ splitOp = [op |-> "none", ok |-> TRUE, total |-> "within"]
  /\ InitLedger(SheetMembers)

NextSave ==
  \E payer \in SheetUsers, amount \in 1..MaxAmount : saveEqualExpense(payer, amount)

SpecSave == InitQuad /\ [][NextSave]_vars

\* the function runs to its return: nothing else is scheduled in between
SpecMatchFair == SpecMatch /\ WF_vars(NextMatch)

\* ------------------------------------------------------- groups
\* an entry of group.members: a subdocument {user, role, isActive} as the
\* schema and the scripts have it, or the bare user id the controllers push
\* and compare with (it has no user, role or isActive field)
MemberDoc(user, role) == [bare |-> FALSE, user |-> user, role |-> role, isActive |-> TRUE]
BareMember(user) == [bare |-> TRUE, user |-> user, role |-> "undefined", isActive |-> FALSE]

Roles == {"admin", "member"}

\* pre('save') that lets every document through
PreSaveGroupNoCheck(mem) == TRUE

\* groupSchema.pre('save'): at least one member with role admin and isActive
PreSaveGroup(mem) ==
  \E i \in 1..Len(mem) : mem[i].role = "admin" /\ mem[i].isActive

\* group.save(): the document is persisted when the hook lets it through
SaveGroup(op, createdBy, mem) ==
  IF PreSaveGroup(mem)
  THEN group' = [exists |-> TRUE, createdBy |-> createdBy, members |-> mem,
                 op |-> op, ok |-> TRUE]
  ELSE group' = [group EXCEPT !.op = op, !.ok = FALSE]

GroupFrame == UNCHANGED <<splitVars, ledgerVars, match, http>>

\* an operation answered without a save
GroupAnswer(op, ok) == group' = [group EXCEPT !.op = op, !.ok = ok]

\* the scripts: new Group({members: users.map(user => ({user, role}))}).save()
saveGroup(users, roles) ==
  /\ ~group.exists
  /\ SaveGroup("saveGroup", users[1],
               [i \in 1..Len(users) |-> MemberDoc(users[i], roles[i])])
  /\ GroupFrame

\* POST /api/groups: members is [req.user.id]
createGroup(user) ==
  /\ ~group.exists
  /\ SaveGroup("createGroup", user, <<BareMember(user)>>)
  /\ GroupFrame

\* POST /api/groups/:id/members
addMember(user) ==
  /\ GroupFrame
  /\ IF ~group.exists THEN GroupAnswer("addMember", FALSE)
     ELSE IF \E i \in 1..Len(group.members) :
                group.members[i].bare /\ group.members[i].user = user
     THEN GroupAnswer("addMember", FALSE)
     ELSE SaveGroup("addMember", group.createdBy, Append(group.members, BareMember(user)))

\* group.members.filter(member => member.toString() !== userId): a
\* subdocument's toString() is not a user id
WithoutMember(mem, userId) ==
  SelectSeq(mem, LAMBDA m : ~(m.bare /\ m.user = userId))

\* DELETE /api/groups/:id/members/:userId
removeMember(requester, userId) ==
  /\ GroupFrame
  /\ IF ~group.exists THEN GroupAnswer("removeMember", FALSE)
     ELSE IF group.createdBy # requester THEN GroupAnswer("removeMember", FALSE)
     ELSE SaveGroup("removeMember", group.createdBy, WithoutMember(group.members, userId))

\* POST /api/groups/:id/leave
leaveGroup(requester) ==
  /\ GroupFrame
  /\ IF ~group.exists THEN GroupAnswer("leaveGroup", FALSE)
     ELSE IF group.createdBy = requester THEN GroupAnswer("leaveGroup", FALSE)
     ELSE SaveGroup("leaveGroup", group.createdBy, WithoutMember(group.members, requester))

\* this.members.find(member => member.user.toString() === userId): the index
\* found, 0 when none, -1 when an entry without a user is met first
RECURSIVE FindMember(_, _, _)
FindMember(mem, userId, i) ==
  IF i > Len(mem) THEN 0
  ELSE IF mem[i].bare THEN -1
  ELSE IF mem[i].user = userId THEN i
  ELSE FindMember(mem, userId, i + 1)

\* group.addMember(userId, role)
methodAddMember(userId, role) ==
  /\ group.exists
  /\ GroupFrame
  /\ LET i == FindMember(group.members, userId, 1)
     IN  IF i = -1 THEN GroupAnswer("Group.addMember", FALSE)
         ELSE IF i > 0
         THEN SaveGroup("Group.addMember", group.createdBy,
                        [group.members EXCEPT ![i].isActive = TRUE])
         ELSE SaveGroup("Group.addMember", group.createdBy,
                        Append(group.members, MemberDoc(userId, role)))

\* group.removeMember(userId)
methodRemoveMember(userId) ==
  /\ group.exists
  /\ GroupFrame
  /\ LET i == FindMember(group.members, userId, 1)
     IN  IF i = -1 THEN GroupAnswer("Group.removeMember", FALSE)
         ELSE IF i > 0
         THEN SaveGroup("Group.removeMember", group.createdBy,
                        [group.members EXCEPT ![i].isActive = FALSE])
         ELSE SaveGroup("Group.removeMember", group.createdBy, group.members)

NextGroup ==
  \/ \E users \in DistinctSeqs(Participants) \ {<<>>} :
       \E roles \in [1..Len(users) -> Roles] : saveGroup(users, roles)
  \/ \E user \in Participants : createGroup(user)
  \/ \E user \in Participants : addMember(user)
  \/ \E requester, userId \in Participants : removeMember(requester, userId)
  \/ \E requester \in Participants : leaveGroup(requester)
  \/ \E userId \in Participants, role \in Roles : methodAddMember(userId, role)
  \/ \E userId \in Participants : methodRemoveMember(userId)

SpecGroup == Init /\ [][NextGroup]_vars

\* ------------------------------------------------------- reminders
\* dates are counted in half days: the reminder interval of 24 hours, and the
\* default due date 7 days after creation
ReminderInterval == 2
DueAfter == 14

\* a date field that is not set on the document
Unset == 0 - 1

\* the clock runs until a debt created at the latest stamped date is overdue
\* and its next reminder has come
LastDate == MaxTime + DueAfter + ReminderInterval + 1

\* the reminder fields of a new Debt document, at their schema defaults
WithReminderFields(d, dueDate, createdAt) ==
  d @@ [reminderCount |-> 0, lastReminderSent |-> Unset, nextReminderDate |-> Unset,
        dueDate |-> dueDate, isActive |-> TRUE, createdAt |-> createdAt]

\* calculateNextReminder that plans the reminder for the present moment
calculateNextReminderAtOnce(d, t) == [d EXCEPT !.nextReminderDate = t]

\* debt.calculateNextReminder()
calculateNextReminder(d, t) == [d EXCEPT !.nextReminderDate = t + ReminderInterval]

\* debtSchema.pre('save') on a new document
PreSaveDebt(d, t) ==
  LET due == IF d.dueDate = Unset THEN [d EXCEPT !.dueDate = t + DueAfter] ELSE d
  IN  IF due.nextReminderDate = Unset THEN calculateNextReminder(due, t) ELSE due

\* debt.sendReminder(), up to its save
sendReminder(d, t) ==
  calculateNextReminder([d EXCEPT !.reminderCount = @ + 1, !.lastReminderSent = t], t)

\* Debt.findNeedingReminders() that leaves the paid debts in
findNeedingRemindersAnyPaid(ds, t) ==
  {i \in 1..Len(ds) :
     /\ ds[i].isActive
     /\ \/ (ds[i].nextReminderDate # Unset /\ ds[i].nextReminderDate <= t)
        \/ ds[i].nextReminderDate = Unset}

\* Debt.findNeedingReminders(): the positions of the documents the query
\* matches; $lte matches a date that is set, $exists: false one that is not
findNeedingReminders(ds, t) ==
  {i \in 1..Len(ds) :
     /\ ~ds[i].isPaid
     /\ ds[i].isActive
     /\ \/ (ds[i].nextReminderDate # Unset /\ ds[i].nextReminderDate <= t)
        \/ ds[i].nextReminderDate = Unset}

\* the client store's getOverdueDebts over the debts the server sent; no
\* operation of the server sets isSettled
getOverdueDebts(ds, t) ==
  {i \in 1..Len(ds) : ds[i].dueDate # Unset /\ ds[i].dueDate < t}

\* the isOverdue virtual
isOverdue(d, t) == d.dueDate # Unset /\ t > d.dueDate /\ ~d.isPaid

\* the _ids of the debts that are followed through their reminders
RemindIds == {1}

RemindFrame == UNCHANGED <<splitVars, sideVars, calls, members, expenses, nextExpenseId>>

\* time passes
tick ==
  /\ now < LastDate
  /\ now' = now + 1
  /\ UNCHANGED <<debts, nextDebtId, lastOp>>
  /\ RemindFrame

\* create-sample-data.js: new Debt({..., dueDate: now + 7 days}).save(), for
\* a debt of a fresh expense
saveDebtDoc(debtor, creditor) ==
  /\ nextDebtId \in RemindIds
  /\ now <= MaxTime
  /\ debtor # creditor
  /\ debts' = Append(debts,
       PreSaveDebt(WithReminderFields(
                     NewDebt(nextDebtId, debtor, creditor, nextDebtId, 300, 300, "undefined"),
                     now + DueAfter, now), now))
  /\ nextDebtId' = nextDebtId + 1
  /\ Done("save", TRUE)
  /\ UNCHANGED now
  /\ RemindFrame

\* the test script: Debt.insertMany(debts), which runs no save middleware
insertManyDebts(debtor, creditor) ==
  /\ nextDebtId \in RemindIds
  /\ now <= MaxTime
  /\ debtor # creditor
  /\ debts' = Append(debts,
       WithReminderFields(
         NewDebt(nextDebtId, debtor, creditor, nextDebtId, 300, 300, "undefined"),
         Unset, now))
  /\ nextDebtId' = nextDebtId + 1
  /\ Done("insertMany", TRUE)
  /\ UNCHANGED now
  /\ RemindFrame

\* the bound on the reminders recorded for one debt
MaxReminders == 2

\* debt.sendReminder()
recordReminder(id) ==
  /\ IndexOf(debts, id) # 0
  /\ debts[IndexOf(debts, id)].reminderCount < MaxReminders
  /\ debts' = [debts EXCEPT ![IndexOf(debts, id)] = sendReminder(@, now)]
  /\ Done("sendReminder", TRUE)
  /\ UNCHANGED <<now, nextDebtId>>
  /\ RemindFrame

\* debt.markAsPaid() at the present date
payAtDate(id) ==
  /\ IndexOf(debts, id) # 0
  /\ ~debts[IndexOf(debts, id)].isPaid
  /\ debts' = [debts EXCEPT ![IndexOf(debts, id)] = markAsPaid(@, now)]
  /\ Done("markAsPaid", TRUE)
  /\ UNCHANGED <<now, nextDebtId>>
  /\ RemindFrame

NextRemind ==
  \/ tick
  \/ \E debtor, creditor \in {"A", "B"} : saveDebtDoc(debtor, creditor)
  \/ \E debtor, creditor \in {"A", "B"} : insertManyDebts(debtor, creditor)
  \/ \E id \in RemindIds : recordReminder(id)
  \/ \E id \in RemindIds : payAtDate(id)

SpecRemind == Init /\ [][NextRemind]_vars

\* ------------------------------------------------- requests and auth
\* the Authorization headers of requests: none, another scheme, and bearer
\* tokens that fail jwt.verify, refresh tokens and access tokens of a user id
AuthHeaders ==
  {[scheme |-> "none", kind |-> "none", userId |-> "none"],
   [scheme |-> "Basic", kind |-> "none", userId |-> "none"],
   [scheme |-> "Bearer", kind |-> "none", userId |-> "none"],
   [scheme |-> "Bearer", kind |-> "malformed", userId |-> "none"],
   [scheme |-> "Bearer", kind |-> "expired", userId |-> "A"]}
  \cup [scheme : {"Bearer"}, kind : {"refresh", "access"}, userId : {"A", "B"}]

\* the routers mounted behind auth, and routes that are not
ProtectedPaths ==
  {"/api/users", "/api/groups", "/api/expenses", "/api/debts", "/api/auth/profile"}
PublicPaths == {"/health", "/api/auth/line"}

\* the requests the limiter lets through in one window (100 in the code)
RateMax == 3

\* the error handler answers with the status code of the error
errorHandler(err) == err.statusCode

\* jwt.verify(token, JWT_SECRET): the payload, or the name of the error thrown
verifyToken(header) ==
  IF header.kind = "malformed" THEN [error |-> "JsonWebTokenError"]
  ELSE IF header.kind = "expired" THEN [error |-> "TokenExpiredError"]
  ELSE [error |-> "none", userId |-> header.userId,
        type |-> IF header.kind = "refresh" THEN "refresh" ELSE "undefined"]

\* auth that does not look at the type of the token
authAnyTokenType(header, users) ==
  IF ~(header.scheme = "Bearer" /\ header.kind # "none")
  THEN [next |-> FALSE, statusCode |-> 401, user |-> "none"]
  ELSE LET decoded == verifyToken(header)
       IN  IF decoded.error # "none"
           THEN [next |-> FALSE, statusCode |-> 401, user |-> "none"]
           ELSE IF users[decoded.userId] # "active"
           THEN [next |-> FALSE, statusCode |-> 401, user |-> "none"]
           ELSE [next |-> TRUE, statusCode |-> 0, user |-> decoded.userId]

\* the auth middleware: next() with req.user set, or next(new AppError(.., 401))
auth(header, users) ==
  IF ~(header.scheme = "Bearer" /\ header.kind # "none")
  THEN [next |-> FALSE, statusCode |-> 401, user |-> "none"]
  ELSE LET decoded == verifyToken(header)
       IN  IF decoded.error # "none"
           THEN [next |-> FALSE, statusCode |-> 401, user |-> "none"]
           ELSE IF decoded.type = "refresh"
           THEN [next |-> FALSE, statusCode |-> 401, user |-> "none"]
           ELSE IF users[decoded.userId] = "missing"
           THEN [next |-> FALSE, statusCode |-> 401, user |-> "none"]
           ELSE IF users[decoded.userId] # "active"
           THEN [next |-> FALSE, statusCode |-> 401, user |-> "none"]
           ELSE [next |-> TRUE, statusCode |-> 0, user |-> decoded.userId]

HttpFrame == UNCHANGED <<splitVars, ledgerVars, match, group>>

\* one request through the application: the rate limiter of /api/, the JSON
\* body parser, then the router of the path: auth where it is mounted, and
\* the route handler (DELETE /api/users removes the caller's User document)
request(path, method, body, header) ==
  /\ HttpFrame
  /\ IF path # "/health" /\ http.hits >= RateMax
     THEN http' = [http EXCEPT !.status = 429, !.handled = FALSE, !.user = "none"]
     ELSE LET hits == IF path # "/health" THEN http.hits + 1 ELSE http.hits
              checked == IF path \in ProtectedPaths THEN auth(header, http.users)
                         ELSE [next |-> TRUE, statusCode |-> 0, user |-> "none"]
          IN  IF body = "malformed"
              THEN http' = [http EXCEPT !.hits = hits, !.handled = FALSE, !.user = "none",
                                        !.status = errorHandler([statusCode |-> 400])]
              ELSE IF ~checked.next
              THEN http' = [http EXCEPT !.hits = hits, !.handled = FALSE, !.user = "none",
                                        !.status = errorHandler(checked)]
              ELSE http' = [http EXCEPT
                              !.hits = hits, !.handled = TRUE, !.user = checked.user,
                              !.status = 200,
                              !.users = IF path = "/api/users" /\ method = "DELETE"
                                        THEN [@ EXCEPT ![checked.user] = "missing"]
                                        ELSE @]

\* the window of the limiter ends
windowEnds ==
  /\ http.hits > 0
  /\ http' = [http EXCEPT !.hits = 0]
  /\ HttpFrame

InitHttp ==
  /\ exp = [amount |-> 1, paidBy |-> "A", splits |-> <<>>, splitMethod |-> "equal"]
  /\ splitOp = [op |-> "none", ok |-> TRUE, total |-> "within"]
  /\ calls = [p \in Callers |-> Idle]
  /\ members = <<"A", "B">>
  /\ expenses = {}
  /\ debts = <<>>
  /\ nextExpenseId = 1
  /\ nextDebtId = 1
  /\ now = 1
  /\ lastOp = [op |-> "none", ok |-> TRUE]
  /\ group = NoGroup
  /\ match = NoMatch
  /\ \E accounts \in [{"A", "B"} -> {"active", "deactivated", "missing"}] :
       http = NoRequest(accounts)

NextHttp ==
  \/ \E path \in ProtectedPaths \cup PublicPaths, method \in {"GET", "DELETE"},
        body \in {"none", "json", "malformed"}, header \in AuthHeaders :
       request(path, method, body, header)
  \/ windowEnds

SpecHttp == InitHttp /\ [][NextHttp]_vars

\* ------------------------------------------------ claims: split calculator
\* C1: after calculateEqualSplits over 1 or more participants the split
\* amounts add up to the expense amount exactly (the last participant takes
\* the rounding remainder).
C1_EqualSplitConservesTotal ==
  (splitOp.op = "equal" /\ Len(exp.splits) >= 1) =>
     /\ SumAmount(exp.splits) = exp.amount
     /\ \A i \in 1..(Len(exp.splits) - 1) :
           exp.splits[i].amount \in RoundOutcomes(exp.amount, Len(exp.splits))

\* C2: after an accepted calculatePercentageSplits the split amounts, each
\* round(amount * pct / 100, 2) but for the last, add up to the expense amount
\* exactly.
C2_PercentageSplitConservesTotal ==
  (splitOp.op = "percentage" /\ splitOp.ok) =>
     /\ SumAmount(exp.splits) = exp.amount
     /\ \A i \in 1..(Len(exp.splits) - 1) :
           exp.splits[i].amount \in
             RoundOutcomes(exp.amount * exp.splits[i].percentage, FullPercent)

\* C3: a calculateCustomSplits or calculatePercentageSplits call whose total is
\* off by more than the tolerance fails, and a failed call leaves the
\* expense's splits and splitMethod as they were.
C3_BadTotalsRejectedWithoutSideEffects ==
  [][splitOp'.op \in {"custom", "percentage"} =>
       /\ splitOp'.total = "beyond" => ~splitOp'.ok
       /\ ~splitOp'.ok => /\ exp'.splits = exp.splits
                          /\ exp'.splitMethod = exp.splitMethod]_vars

\* a rejected call on an expense that already had splits
C3_Witness ==
  /\ splitOp.op \in {"custom", "percentage"}
  /\ ~splitOp.ok
  /\ splitOp.total = "beyond"
  /\ exp.splits # <<>>

\* ---------------------------------------------------------- claims: ledger
\* the operations that end with calculateDebts
Recalculations == {"createExpense", "deleteExpense", "calculateGroupDebts"}

\* the share of user in the splitDetails of expense e
ShareOf(user, e) ==
  LET at == {i \in 1..Len(e.splitDetails) : e.splitDetails[i].user = user}
  IN  IF at = {} THEN 0 ELSE e.splitDetails[CHOOSE i \in at : TRUE].amount

\* the group holds one expense, recorded through the API, the debts of the
\* group were just rebuilt from it and no other debt is in the collection
OneExpenseRecalculated ==
  /\ lastOp.op \in Recalculations
  /\ lastOp.ok
  /\ Cardinality(expenses) = 1
  /\ \A e \in expenses : e.hasSplitDetails
  /\ \A i \in 1..Len(debts) : debts[i].status = "pending" /\ ~debts[i].isPaid

\* C4: when one member pays an expense split among the members, the debts of
\* the group have every other participant as debtor and the payer as
\* creditor, each for the participant's share; the payer's net balance is the
\* amount minus the payer's own share, every other participant's is minus the
\* share, and the payer is debtor of no debt.
C4_PayerIsCreditorOfEveryShare ==
  OneExpenseRecalculated =>
    \A e \in expenses :
      /\ \A i \in 1..Len(debts) :
            /\ debts[i].creditor = e.paidBy
            /\ debts[i].debtor # e.paidBy
            /\ debts[i].amount = ShareOf(debts[i].debtor, e)
      /\ \A u \in {members[k] : k \in DOMAIN members} \ {e.paidBy} :
            /\ ShareOf(u, e) > 0 => \E i \in 1..Len(debts) : debts[i].debtor = u
            /\ getUserNetBalance(u, debts) = 0 - ShareOf(u, e)
      /\ getUserNetBalance(e.paidBy, debts) = e.amount - ShareOf(e.paidBy, e)

\* C5: an addPartialPayment call with amount <= 0 or amount above the
\* remaining amount fails; a failed call leaves the collection, and with it
\* the debt's partialPayments, outstanding amount, isPaid and paidAt, as they
\* were; and a call on a debt whose outstanding amount is not negative never
\* makes it negative.
C5_InvalidPaymentRejectedUnchanged ==
  [][\A id \in DebtIds, amount \in PaymentAmounts :
       payPartially(id, amount) =>
         LET i == IndexOf(debts, id)
         IN  /\ (amount <= 0 \/ amount > remainingAmount(debts[i])) => ~lastOp'.ok
             /\ ~lastOp'.ok => debts' = debts
             /\ debts[i].amount - totalPaid(debts[i]) >= 0 =>
                  debts'[i].amount - totalPaid(debts'[i]) >= 0]_vars

\* an overpayment was refused on a debt that is partly paid
C5_Witness ==
  /\ lastOp = [op |-> "addPartialPayment", ok |-> FALSE]
  /\ \E i \in 1..Len(debts) :
       /\ ~debts[i].isPaid
       /\ debts[i].partialPayments # <<>>
       /\ remainingAmount(debts[i]) < 300

\* C6: every unpaid debt has 0 < amount - paid <= originalAmount.
C6_UnpaidDebtOutstandingInRange ==
  \A i \in 1..Len(debts) :
    ~debts[i].isPaid =>
      /\ 0 < debts[i].amount - totalPaid(debts[i])
      /\ debts[i].amount - totalPaid(debts[i]) <= debts[i].originalAmount

\* C7: once a debt has isPaid = true, no operation sets isPaid back to false
\* or changes its amount, its partialPayments or its paidAt.
C7_PaidIsTerminal ==
  [][\A i \in 1..Len(debts) : \A j \in 1..Len(debts') :
       (debts[i].isPaid /\ debts'[j].id = debts[i].id) =>
          /\ debts'[j].isPaid
          /\ debts'[j].amount = debts[i].amount
          /\ debts'[j].partialPayments = debts[i].partialPayments
          /\ debts'[j].paidAt = debts[i].paidAt]_vars

\* the (debtor, creditor, amount) triples of the pending debts of the group
PendingOf(ds) == {i \in 1..Len(ds) : ds[i].group = "G" /\ ds[i].status = "pending"}
PendingTriples(ds) ==
  {<<ds[i].debtor, ds[i].creditor, ds[i].amount>> : i \in PendingOf(ds)}

\* C8: a recalculation of the group that directly follows a recalculation,
\* with the expenses unchanged, leaves the same pending (debtor, creditor,
\* amount) triples, each held by one debt.
C8_RecalculationIdempotent ==
  [][(lastOp.op \in Recalculations /\ lastOp.ok
      /\ lastOp'.op = "calculateGroupDebts" /\ expenses' = expenses) =>
        /\ PendingTriples(debts') = PendingTriples(debts)
        /\ Cardinality(PendingOf(debts')) = Cardinality(PendingTriples(debts'))]_vars

\* the group was recalculated a second time: the only expense ever recorded
\* came through the API, its debt was rebuilt twice and nothing was paid or
\* settled in between
C8_Witness ==
  /\ lastOp = [op |-> "calculateGroupDebts", ok |-> TRUE]
  /\ nextExpenseId = 2
  /\ nextDebtId = 3
  /\ now = 1
  /\ PendingOf(debts) # {}

\* C9: a recalculation leaves every paid debt of the group in the collection
\* unchanged, and after an expense was deleted and the group recalculated no
\* unpaid debt derived from it remains.
C9_RecalculationKeepsPaidDropsOrphans ==
  [][lastOp'.op \in Recalculations =>
       /\ \A i \in 1..Len(debts) :
            debts[i].isPaid => \E j \in 1..Len(debts') : debts'[j] = debts[i]
       /\ (lastOp'.op = "deleteExpense" /\ lastOp'.ok) =>
            \A j \in 1..Len(debts') :
              (~debts'[j].isPaid /\ debts'[j].expense # 0) =>
                 \E e \in expenses' : e.id = debts'[j].expense]_vars

\* C10: deriving the debts of an expense whose debts are already in the
\* collection succeeds and leaves the collection as it was.
C10_RederiveIsSilentUpsert ==
  [][\A id \in ExpenseIds :
       (deriveFromExpense(id) /\ \E i \in 1..Len(debts) : debts[i].expense = id) =>
          /\ lastOp'.ok
          /\ debts' = debts]_vars

\* ------------------------------------------------- claims: derived debts
\* the positions of the splits of e whose user is not the payer
NonPayerSplits(e) == {k \in 1..Len(e.splits) : e.splits[k].user # e.paidBy}

\* C11: a successful derive of an expense adds one debt per split whose user
\* is not the payer, in the order of the splits, with debtor the split's user,
\* creditor the payer, the expense's id, and amount = originalAmount = the
\* split's amount; the payer's own split gets no debt and is marked paid.
C11_OneDebtPerNonPayerSplit ==
  [][\A id \in ExpenseIds :
       (deriveFromExpense(id) /\ lastOp'.ok) =>
          LET e == CHOOSE x \in expenses : x.id = id
              added == SubSeq(debts', Len(debts) + 1, Len(debts'))
              RECURSIVE Expected(_)
              Expected(splits) ==
                IF splits = <<>> THEN <<>>
                ELSE (IF Head(splits).user # e.paidBy
                      THEN <<[debtor |-> Head(splits).user, amount |-> Head(splits).amount]>>
                      ELSE <<>>) \o Expected(Tail(splits))
          IN  /\ SubSeq(debts', 1, Len(debts)) = debts
              /\ Len(added) = Cardinality(NonPayerSplits(e))
              /\ [k \in 1..Len(added) |->
                    [debtor |-> added[k].debtor, amount |-> added[k].amount]]
                   = Expected(e.splits)
              /\ \A k \in 1..Len(added) :
                    /\ added[k].creditor = e.paidBy
                    /\ added[k].debtor # e.paidBy
                    /\ added[k].expense = e.id
                    /\ added[k].originalAmount = added[k].amount
                    /\ ~added[k].isPaid
              /\ \A k \in 1..Len(e.splits) :
                    e.splits[k].isPaid <=> e.splits[k].user = e.paidBy]_vars

\* the debts of an expense split three ways were derived: two debts, none for
\* the payer
C11_Witness ==
  /\ lastOp = [op |-> "deriveFromExpense", ok |-> TRUE]
  /\ Len(members) = 3
  /\ Len(debts) = 2
  /\ \E e \in expenses :
       /\ Len(e.splits) = 3
       /\ \A i \in 1..Len(debts) : debts[i].expense = e.id /\ debts[i].creditor = e.paidBy

Unpaid(ds) == {i \in 1..Len(ds) : ds[i].group = "G" /\ ~ds[i].isPaid}

\* the unpaid debts are one debt and one debt in the opposite direction
MutualPair(ds) ==
  /\ Cardinality(Unpaid(ds)) = 2
  /\ \E i, j \in Unpaid(ds) :
       /\ i # j
       /\ ds[i].debtor = ds[j].creditor
       /\ ds[i].creditor = ds[j].debtor

C14_NoOppositeUnpaidAfterOptimize ==
  [][optimize("G") =>
       \A i, j \in Unpaid(debts') :
         ~(debts'[i].debtor = debts'[j].creditor
           /\ debts'[i].creditor = debts'[j].debtor)]_vars

\* ------------------------------------------------------ claims: concurrency
\* the pending triples a recalculation run on its own leaves for the expenses
\* exps
SerialTriples(exps) ==
  LET new == calculateOptimalDebts(
               [u \in {members[i] : i \in DOMAIN members} |-> MemberBalance(u, exps)],
               members)
  IN  {<<new[i].debtor, new[i].creditor, new[i].amount>> : i \in 1..Len(new)}

\* C15: when two requests that recalculate the group have run interleaved and
\* both are finished, the pending debts are the ones either serial order
\* leaves (both orders end with a recalculation over the final expenses):
\* none twice, none missing.
C15_ConcurrentRecalculationSerializable ==
  (\A p \in Callers : calls[p].pc = "done") =>
     /\ PendingTriples(debts) = SerialTriples(expenses)
     /\ Cardinality(PendingOf(debts)) = Cardinality(PendingTriples(debts))

\* the callers whose payment on the debt with _id id was accepted and pushed
Accepted(id) ==
  {p \in Callers : calls[p].id = id /\ calls[p].ok /\ calls[p].amount > 0}

\* C16: when two payment requests (addPartialPayment or markAsPaid) have run
\* interleaved and both are finished, the payments stored on a debt do not
\* add up to more than its amount, and every accepted payment is stored.
C16_ConcurrentPaymentsNotDoubleCounted ==
  (\A p \in Callers : calls[p].pc = "done") =>
     \A i \in 1..Len(debts) :
       /\ totalPaid(debts[i]) <= debts[i].amount
       /\ Len(debts[i].partialPayments) = Cardinality(Accepted(debts[i].id))

\* ------------------------------------------------- claims: expense requests
\* C17: a createExpense or deleteExpense request that reports failure leaves
\* the stored expenses and the debts as they were, and one that reports
\* success leaves as pending debts the ones calculated from the new expenses.
C17_ExpenseMutationAllOrNothing ==
  [][lastOp'.op \in {"createExpense", "deleteExpense"} =>
       /\ ~lastOp'.ok => (expenses' = expenses /\ debts' = debts)
       /\ lastOp'.ok => PendingTriples(debts') = SerialTriples(expenses')]_vars

\* ---------------------------------------------------------- claims: payments
\* C18: markAsPaid on an unpaid debt whose amount minus payments is r >= 0
\* sets isPaid and stamps paidAt, appends one payment of r when r > 0 and
\* none when r = 0, and leaves amount minus payments at 0.
C18_MarkAsPaidForceCloses ==
  [][\A id \in BookIds :
       LET i == IndexOf(debts, id)
           r == debts[i].amount - totalPaid(debts[i])
       IN  (payInFull(id) /\ ~debts[i].isPaid /\ r >= 0) =>
              /\ debts'[i].isPaid
              /\ debts'[i].paidAt = now
              /\ debts'[i].partialPayments =
                   IF r > 0 THEN Append(debts[i].partialPayments, r)
                   ELSE debts[i].partialPayments
              /\ debts'[i].amount - totalPaid(debts'[i]) = 0
              /\ debts'[i].amount = debts[i].amount
              /\ \A j \in 1..Len(debts) : j # i => debts'[j] = debts[j]]_vars

\* a partly paid debt was closed: the final payment follows the partial one
C18_Witness ==
  /\ lastOp = [op |-> "markAsPaid", ok |-> TRUE]
  /\ \E i \in 1..Len(debts) :
       /\ debts[i].isPaid
       /\ Len(debts[i].partialPayments) = 2
       /\ totalPaid(debts[i]) = debts[i].amount
       /\ debts[i].paidAt = now - 1

\* C19: an accepted addPartialPayment on an unpaid debt appends one payment
\* of the amount paid and lowers amount minus payments by that amount; the
\* debt is paid, with paidAt stamped, exactly when what is left is at most
\* 0.01, and stays unpaid otherwise.
C19_PaymentTransition ==
  [][\A id \in BookIds, amount \in 0..MaxAmount :
       LET i == IndexOf(debts, id)
           left == debts[i].amount - totalPaid(debts[i]) - amount
       IN  (payPartially(id, amount) /\ lastOp'.ok /\ ~debts[i].isPaid) =>
              /\ debts'[i].partialPayments = Append(debts[i].partialPayments, amount)
              /\ debts'[i].amount - totalPaid(debts'[i]) = left
              /\ debts'[i].isPaid <=> left <= Tolerance
              /\ debts'[i].isPaid => debts'[i].paidAt = now
              /\ ~debts'[i].isPaid => debts'[i].paidAt = debts[i].paidAt]_vars

\* getGroupDebtSummary(groupId): three aggregations over the Debt records of
\* the group; each sums the amount field and counts the records matched
MatchGroup(groupId, ds) == SelectSeq(ds, LAMBDA d : d.group = groupId)
MatchStatus(groupId, status, ds) ==
  SelectSeq(ds, LAMBDA d : d.group = groupId /\ d.status = status)

getGroupDebtSummary(groupId, ds) ==
  [total   |-> [amount |-> SumAmount(MatchGroup(groupId, ds)),
                count  |-> Len(MatchGroup(groupId, ds))],
   settled |-> [amount |-> SumAmount(MatchStatus(groupId, "settled", ds)),
                count  |-> Len(MatchStatus(groupId, "settled", ds))],
   pending |-> [amount |-> SumAmount(MatchStatus(groupId, "pending", ds)),
                count  |-> Len(MatchStatus(groupId, "pending", ds))]]

\* every stored expense has its debts derived, and every debt is paid
AllDerivedAndPaid ==
  /\ expenses # {}
  /\ \A e \in expenses :
       Cardinality({i \in 1..Len(debts) : debts[i].expense = e.id})
         = Cardinality(NonPayerSplits(e))
  /\ \A i \in 1..Len(debts) : debts[i].expense # 0 /\ debts[i].isPaid

RECURSIVE SumOriginalAmount(_)
SumOriginalAmount(ds) ==
  IF ds = <<>> THEN 0 ELSE Head(ds).originalAmount + SumOriginalAmount(Tail(ds))

\* C20: once the debts of the expenses are derived and every derived debt is
\* paid in full, the summary of the group has pending amount 0 and pending
\* count 0, and its settled amount is the total originally owed.
C20_RoundTripToZero ==
  AllDerivedAndPaid =>
    LET summary == getGroupDebtSummary("G", debts)
    IN  /\ summary.pending.amount = 0
        /\ summary.pending.count = 0
        /\ summary.settled.amount = SumOriginalAmount(debts)

\* ------------------------------------------------ claims: greedy matching
\* what is left of a member's balance once the transfers are made: a debtor's
\* payment lowers the debtor's balance, and raises the creditor's
RECURSIVE Residual(_, _, _)
Residual(u, balance, transfers) ==
  IF transfers = <<>> THEN balance
  ELSE Residual(u,
                balance - (IF Head(transfers).debtor = u THEN Head(transfers).amount ELSE 0)
                        + (IF Head(transfers).creditor = u THEN Head(transfers).amount ELSE 0),
                Tail(transfers))

RECURSIVE SumBalances(_, _)
SumBalances(balances, mem) ==
  IF mem = <<>> THEN 0 ELSE balances[Head(mem)] + SumBalances(balances, Tail(mem))

\* the loop run one step at a time returns what calculateOptimalDebts returns
MatchAgrees ==
  match.pc = "done" => match.debts = calculateOptimalDebts(match.balances, SheetMembers)

\* C21: for a balance sheet that sums to zero, the transfers returned by
\* calculateOptimalDebts leave every member a residual balance below 0.01 in
\* magnitude, and every transfer has a positive amount and a debtor other
\* than its creditor.
C21_TransfersSettleEveryBalance ==
  (match.pc = "done" /\ SumBalances(match.balances, SheetMembers) = 0) =>
     /\ \A u \in SheetUsers : Abs(Residual(u, match.balances[u], match.debts)) < Tolerance
     /\ \A i \in 1..Len(match.debts) :
          match.debts[i].amount > 0 /\ match.debts[i].debtor # match.debts[i].creditor

\* the members listed as debtors and as creditors
DebtorCount(balances) == Len(Debtors(balances, SheetMembers))
CreditorCount(balances) == Len(Creditors(balances, SheetMembers))

\* at most d + c - 1 transfers, and none when a side is empty
TransferBound(balances) ==
  IF DebtorCount(balances) = 0 \/ CreditorCount(balances) = 0 THEN 0
  ELSE DebtorCount(balances) + CreditorCount(balances) - 1

\* C29: every iteration of the matching loop moves at least one of its two
\* indexes on, the loop ends, and with d members above +0.01 and c members
\* below -0.01 it returns at most d + c - 1 transfers (none when d or c is 0).
C29_MatchingTerminatesBounded ==
  /\ [][(match.pc = "loop" /\ match'.pc = "loop") =>
          match'.debtorIndex + match'.creditorIndex
            > match.debtorIndex + match.creditorIndex]_vars
  /\ [](Len(match.debts) <= TransferBound(match.balances))
  /\ <>(match.pc = "done")

C29_Witness ==
  /\ match.pc = "done"
  /\ DebtorCount(match.balances) = 2
  /\ CreditorCount(match.balances) = 2
  /\ match.steps = 3
  /\ Len(match.debts) = 3

\* ------------------------------------------------ claims: groups
\* the active admins of a member list
ActiveAdmins(mem) == {i \in 1..Len(mem) : mem[i].role = "admin" /\ mem[i].isActive}

\* C22: every persisted group has at least one member that is active with
\* role admin, and a removal that would deactivate the last active admin is
\* rejected and leaves the persisted members as they were.
C22_GroupKeepsAnActiveAdmin ==
  /\ [](group.exists => ActiveAdmins(group.members) # {})
  /\ [][\A userId \in Participants :
          LET i == FindMember(group.members, userId, 1)
          IN  (methodRemoveMember(userId) /\ i > 0 /\ ActiveAdmins(group.members) = {i})
                => (~group'.ok /\ group'.members = group.members)]_vars

C22_Witness ==
  /\ group.exists
  /\ group.op = "Group.removeMember"
  /\ ~group.ok
  /\ Cardinality(ActiveAdmins(group.members)) = 1
  /\ Len(group.members) >= 2

\* ------------------------------------------------ claims: reminders
\* C23: at any date, findNeedingReminders returns exactly the debts that are
\* unpaid and active and whose nextReminderDate is not set or has come; a
\* paid debt is never returned, whatever its reminder dates.
C23_ReminderSelection ==
  /\ \A i \in 1..Len(debts) :
       i \in findNeedingReminders(debts, now)
         <=> /\ ~debts[i].isPaid
             /\ debts[i].isActive
             /\ (debts[i].nextReminderDate = Unset \/ debts[i].nextReminderDate <= now)
  /\ \A i \in findNeedingReminders(debts, now) : ~debts[i].isPaid

C23_Witness ==
  /\ Len(debts) = 1
  /\ debts[1].isPaid
  /\ debts[1].reminderCount = 1
  /\ debts[1].nextReminderDate # Unset /\ debts[1].nextReminderDate <= now
  /\ findNeedingReminders(debts, now) = {}

\* a reminder for the debt was recorded less than 24 hours ago
JustReminded(d, t) ==
  d.lastReminderSent # Unset /\ t < d.lastReminderSent + ReminderInterval

\* C24 as stated: every unpaid debt whose dueDate has passed is returned by
\* findNeedingReminders and by getOverdueDebts, in every state, right after a
\* reminder for it was recorded included.
C24_OverdueAlwaysSelected ==
  \A i \in 1..Len(debts) :
     isOverdue(debts[i], now) =>
        i \in findNeedingReminders(debts, now) /\ i \in getOverdueDebts(debts, now)

\* C24, amended: every unpaid debt whose dueDate has passed is returned by
\* getOverdueDebts; findNeedingReminders returns it except during the 24
\* hours after a reminder for it was recorded.
C24_OverdueSelectedUnlessJustReminded ==
  \A i \in 1..Len(debts) :
     isOverdue(debts[i], now) =>
        /\ i \in getOverdueDebts(debts, now)
        /\ i \in findNeedingReminders(debts, now) <=> ~JustReminded(debts[i], now)

C24_Witness ==
  /\ Len(debts) = 1
  /\ isOverdue(debts[1], now)
  /\ lastOp.op = "sendReminder"
  /\ debts[1].lastReminderSent = now
  /\ findNeedingReminders(debts, now) = {}
  /\ getOverdueDebts(debts, now) = {1}

\* C25: recording a reminder at date t adds 1 to reminderCount and sets
\* lastReminderSent to t and nextReminderDate to t + 24 hours, so that
\* findNeedingReminders does not return the debt before t + 24 hours; nor is
\* a new debt returned before 24 hours after its creation.
C25_ReminderSpacing ==
  /\ [][\A id \in RemindIds :
          recordReminder(id) =>
            LET i == IndexOf(debts, id)
            IN  /\ debts'[i].reminderCount = debts[i].reminderCount + 1
                /\ debts'[i].lastReminderSent = now
                /\ debts'[i].nextReminderDate = now + ReminderInterval]_vars
  /\ [](\A i \in findNeedingReminders(debts, now) :
          /\ ~JustReminded(debts[i], now)
          /\ now >= debts[i].createdAt + ReminderInterval)

\* ------------------------------------------- claims: expense mutations
\* C26: an updateExpense or deleteExpense request by a user who is not the
\* payer of the expense is refused and leaves the expenses and the debts as
\* they were; one by the payer is applied and the debts of the group are
\* calculated again, and a deleted expense stays stored with isActive false.
C26_OnlyPayerMutatesExpense ==
  [][\A id \in ExpenseIds, user \in Requesters :
       (\E e \in expenses : e.id = id) =>
         LET expense == CHOOSE e \in expenses : e.id = id
             rederived == calculateDebts("G", members, expenses', debts, nextDebtId).debts
         IN  /\ (deleteExpense(id, user) /\ user # expense.paidBy) =>
                  (~lastOp'.ok /\ expenses' = expenses /\ debts' = debts)
             /\ (deleteExpense(id, user) /\ user = expense.paidBy) =>
                  /\ \E e \in expenses' : e.id = id /\ ~e.isActive
                  /\ debts' = rederived
             /\ \A body \in UpdateArgs :
                  /\ (updateExpense(id, user, body) /\ user # expense.paidBy) =>
                       (~lastOp'.ok /\ expenses' = expenses /\ debts' = debts)
                  /\ (updateExpense(id, user, body) /\ user = expense.paidBy) =>
                       /\ \E e \in expenses' :
                            /\ e.id = id
                            /\ body.amount # 0 => e.amount = body.amount
                            /\ body.sd.has => e.splitDetails = body.sd.list
                       /\ debts' = rederived]_vars

\* ------------------------------------------------ claims: authentication
\* the header carries the access token of a user that exists and is active
Authenticated(header, users) ==
  header.scheme = "Bearer" /\ header.kind = "access" /\ users[header.userId] = "active"

NetPosition(userId, groupId, ds) ==
  getUserNetBalance(userId, SelectSeq(ds, LAMBDA d : d.group = groupId /\ ~d.isPaid))

\* C28: optimizeDebts leaves every member's net balance over the unpaid debts
\* of the group as it was, and changes no debt of another group and no debt
\* that was already paid.
C28_NettingPreservesNetPositions ==
  [][\A groupId \in GroupIds :
       optimize(groupId) =>
         /\ Len(debts') = Len(debts)
         /\ \A userId \in {"A", "B"} :
              NetPosition(userId, groupId, debts') = NetPosition(userId, groupId, debts)
         /\ \A i \in 1..Len(debts) :
              (debts[i].group # groupId \/ debts[i].isPaid) => debts'[i] = debts[i]]_vars

C28_Witness ==
  /\ lastOp = [op |-> "optimizeDebts", ok |-> TRUE]
  /\ Len(debts) = 3
  /\ debts[1].group = "X" /\ ~debts[1].isPaid
  /\ debts[2].partialPayments # <<>>
  /\ \E i, j \in {2, 3} :
       /\ debts[i].isPaid /\ debts[i].notes = "Netted off with mutual debt"
       /\ ~debts[j].isPaid /\ debts[j].amount = 1

\* ------------------------------------------- claims: saving equal splits
\* C30: an expense whose splits were computed by calculateEqualSplits passes
\* the save-time check of the splits' total, so calculateEqualSplits followed
\* by save() is never rejected.
C30_EqualSplitsAlwaysSaveable ==
  lastOp.op = "saveEqualExpense" => lastOp.ok

====
